---------------------------- MODULE Spec2Model ----------------------------
(***************************************************************************)
(* Model of ts-obsidian-log: the severity model of lib/log.internal.ts     *)
(* (isEnabled, isLogLevel, getLogLevel, resolveSettings,                   *)
(* resolvePluginName, showDebugWarning) and the Log facade built on it     *)
(* (singleton init, logger, the five severity methods, notice).           *)
(*                                                                         *)
(* JavaScript values are records [t, v]: t is the result of typeof (with   *)
(* "error" for instances of Error and "null" for null), v the payload.     *)
(***************************************************************************)
EXTENDS Integers, Sequences, FiniteSets, TLC

VARIABLES
    PLUGIN_NAME,   \* the build-time constant __PLUGIN_NAME__ (may be undefined)
    heap,          \* settings objects: object id -> value of its loglevel field
    instance,      \* the static singleton slot: <<>> or <<[pluginname, settings]>>
    created,       \* number of Log objects constructed so far
    showWarning,   \* the flag handed to showDebugWarning: TRUE until the warning was written
    warnings,      \* how often the compatibility warning reached console.warn
    last,          \* the last call on the facade and the effects it produced, in order
    journal,       \* every sink invocation so far, in the order the sinks saw them
    pfn,           \* pure-function harness: the function applied last
    pin,           \* pure-function harness: the inputs
    pout           \* pure-function harness: the result

vars == <<PLUGIN_NAME, heap, instance, created, showWarning, warnings, last, journal,
          pfn, pin, pout>>

facadeVars == <<PLUGIN_NAME, heap, instance, created, showWarning, warnings, last, journal>>

pureVars == <<pfn, pin, pout>>

-----------------------------------------------------------------------------
(* JavaScript values *)

Str(s) == [t |-> "string", v |-> s]

Undefined == [t |-> "undefined", v |-> ""]

Null == [t |-> "null", v |-> ""]

Num123 == [t |-> "number", v |-> "123"]

EmptyObject == [t |-> "object", v |-> "{}"]

EmptyArray == [t |-> "object", v |-> "[]"]

ErrorValue == [t |-> "error", v |-> "Error: boom"]

typeof(x) == IF x.t \in {"error", "null"} THEN "object" ELSE x.t

instanceofError(x) == x.t = "error"

Truthy(x) ==
    CASE x.t = "string" -> x.v # ""
      [] x.t \in {"undefined", "null"} -> FALSE
      [] OTHER -> TRUE

-----------------------------------------------------------------------------
(* lib/types.ts *)

NONE == Str("none")

ERROR == Str("error")

WARN == Str("warn")

DEBUG == Str("debug")

LOG == Str("log")

INFO == Str("info")

SUCCESS == Str("success")

\* Object.values(LogLevels): the property values in insertion order
LogLevels == <<NONE, ERROR, WARN, DEBUG, LOG, INFO>>

-----------------------------------------------------------------------------
(* lib/log.internal.ts *)

resolvePluginName(pluginname) ==
    IF Truthy(pluginname) THEN pluginname
    ELSE IF typeof(PLUGIN_NAME) # "undefined" THEN PLUGIN_NAME
    ELSE Str("unknown-plugin")

LOG_LEVEL_SET == {LogLevels[i] : i \in DOMAIN LogLevels}

\* the keys of LOG_LEVEL_ORDER: a lookup with any other key gives undefined
HasOrder(lvl) == \E i \in DOMAIN LogLevels : LogLevels[i] = lvl

\* [lvl, idx * 10] for idx the 0-based position in Object.values(LogLevels)
LOG_LEVEL_ORDER(lvl) == ((CHOOSE i \in DOMAIN LogLevels : LogLevels[i] = lvl) - 1) * 10

\* a <= b on the looked-up numbers: false as soon as one side is undefined
OrderLeq(a, b) == HasOrder(a) /\ HasOrder(b) /\ LOG_LEVEL_ORDER(a) <= LOG_LEVEL_ORDER(b)

\* variants of isEnabled with a plausible slip: a strict comparison, the guard on
\* NONE left out, the guard on NONE answering true
isEnabled_strict(msglvl, setlvl) ==
    IF setlvl = NONE THEN FALSE
    ELSE HasOrder(msglvl) /\ HasOrder(setlvl) /\ LOG_LEVEL_ORDER(msglvl) < LOG_LEVEL_ORDER(setlvl)

isEnabled_unguarded(msglvl, setlvl) == OrderLeq(msglvl, setlvl)

\* variant of isEnabled that lets a message through at its own level only
isEnabled_exact(msglvl, setlvl) ==
    IF setlvl = NONE THEN FALSE
    ELSE HasOrder(msglvl) /\ HasOrder(setlvl) /\ LOG_LEVEL_ORDER(msglvl) = LOG_LEVEL_ORDER(setlvl)

isEnabled_noneAllows(msglvl, setlvl) ==
    IF setlvl = NONE THEN TRUE
    ELSE OrderLeq(msglvl, setlvl)

isEnabled_swapped(msglvl, setlvl) ==
    IF setlvl = NONE THEN FALSE
    ELSE OrderLeq(setlvl, msglvl)

isEnabled(msglvl, setlvl) ==
    IF setlvl = NONE THEN FALSE
    ELSE OrderLeq(msglvl, setlvl)

\* variant of isLogLevel that accepts every string
isLogLevel_anyString(value) == typeof(value) = "string"

isLogLevel(value) == typeof(value) = "string" /\ value \in LOG_LEVEL_SET

\* variant of getLogLevel that lets "success" fall through to the default
getLogLevel_successInfo(level) ==
    IF instanceofError(level) \/ level = ERROR THEN ERROR
    ELSE IF level = DEBUG THEN DEBUG
    ELSE IF level = WARN \/ level = LOG THEN level
    ELSE INFO

\* variants of getLogLevel: "none" is handed back as it is; "success" is logged
\* at the level log
getLogLevel_passesNone(level) ==
    IF instanceofError(level) \/ level = ERROR THEN ERROR
    ELSE IF level = SUCCESS \/ level = DEBUG THEN DEBUG
    ELSE IF level = WARN \/ level = LOG \/ level = NONE THEN level
    ELSE INFO

getLogLevel_successLog(level) ==
    IF instanceofError(level) \/ level = ERROR THEN ERROR
    ELSE IF level = DEBUG THEN DEBUG
    ELSE IF level = WARN \/ level = LOG THEN level
    ELSE IF level = SUCCESS THEN LOG
    ELSE INFO

getLogLevel(level) ==
    IF instanceofError(level) \/ level = ERROR THEN ERROR
    ELSE IF level = SUCCESS \/ level = DEBUG THEN DEBUG
    ELSE IF level = WARN \/ level = LOG THEN level
    ELSE INFO


\* a settings argument is <<>> (omitted) or <<o>> (a reference to heap object o)
NewObject == Cardinality(DOMAIN heap) + 1

\* variant of resolveSettings that answers an invalid level with a corrected copy
resolveSettings_copy(settings) ==
    IF settings = <<>> \/ ~isLogLevel(heap[settings[1]]) THEN
        [ret |-> NewObject, heap |-> heap @@ (NewObject :> INFO)]
    ELSE
        [ret |-> settings[1], heap |-> heap]

\* variant of resolveSettings whose default record carries the level log
resolveSettings_defaultLog(settings) ==
    IF settings = <<>> THEN
        [ret |-> NewObject, heap |-> heap @@ (NewObject :> LOG)]
    ELSE IF ~isLogLevel(heap[settings[1]]) THEN
        [ret |-> settings[1], heap |-> [heap EXCEPT ![settings[1]] = INFO]]
    ELSE
        [ret |-> settings[1], heap |-> heap]

resolveSettings(settings) ==
    IF settings = <<>> THEN
        [ret |-> NewObject, heap |-> heap @@ (NewObject :> INFO)]
    ELSE IF ~isLogLevel(heap[settings[1]]) THEN
        [ret |-> settings[1], heap |-> [heap EXCEPT ![settings[1]] = INFO]]
    ELSE
        [ret |-> settings[1], heap |-> heap]

DEBUGWARNING == Str("Debug output may not be visible unless Chrome DevTools are set to 'Verbose'.")

\* one invocation of a sink: a console function, the Notice constructor, or addClass
Effect(sink, args) == [sink |-> sink, args |-> args]

\* variants of showDebugWarning: the flag is handed back unchanged after the warning
\* was written; the test of the message level is left out
showDebugWarning_keepsFlag(show, msglvl, pluginname) ==
    IF ~show THEN [ret |-> show, out |-> <<>>]
    ELSE IF msglvl # DEBUG THEN [ret |-> show, out |-> <<>>]
    ELSE [ret |-> show, out |-> <<Effect("console.warn", <<pluginname, DEBUGWARNING>>)>>]

showDebugWarning_anyLevel(show, msglvl, pluginname) ==
    IF ~show THEN [ret |-> show, out |-> <<>>]
    ELSE [ret |-> FALSE, out |-> <<Effect("console.warn", <<pluginname, DEBUGWARNING>>)>>]

\* variants of showDebugWarning: the warning is written without the plugin name;
\* the warning is tied to the level warn
showDebugWarning_noName(show, msglvl, pluginname) ==
    IF ~show THEN [ret |-> show, out |-> <<>>]
    ELSE IF msglvl # DEBUG THEN [ret |-> show, out |-> <<>>]
    ELSE [ret |-> FALSE, out |-> <<Effect("console.warn", <<DEBUGWARNING>>)>>]

showDebugWarning_onWarn(show, msglvl, pluginname) ==
    IF ~show THEN [ret |-> show, out |-> <<>>]
    ELSE IF msglvl # WARN THEN [ret |-> show, out |-> <<>>]
    ELSE [ret |-> FALSE, out |-> <<Effect("console.warn", <<pluginname, DEBUGWARNING>>)>>]

\* returns the new flag (ret) and what it wrote to the console (out)
showDebugWarning(show, msglvl, pluginname) ==
    IF ~show THEN [ret |-> show, out |-> <<>>]
    ELSE IF msglvl # DEBUG THEN [ret |-> show, out |-> <<>>]
    ELSE [ret |-> FALSE, out |-> <<Effect("console.warn", <<pluginname, DEBUGWARNING>>)>>]

-----------------------------------------------------------------------------
(* lib/log.ts: class Log *)

\* variant of CONSOLE_FN with the entries of log and info exchanged
CONSOLE_FN_swapped(msglvl) ==
    CASE msglvl = ERROR -> "console.error"
      [] msglvl = WARN -> "console.warn"
      [] msglvl = DEBUG -> "console.debug"
      [] msglvl = LOG -> "console.info"
      [] msglvl = INFO -> "console.log"
      [] OTHER -> "undefined"

\* a lookup with a key the table does not have gives undefined
CONSOLE_FN(msglvl) ==
    CASE msglvl = ERROR -> "console.error"
      [] msglvl = WARN -> "console.warn"
      [] msglvl = DEBUG -> "console.debug"
      [] msglvl = LOG -> "console.log"
      [] msglvl = INFO -> "console.info"
      [] OTHER -> "undefined"

\* the singleton: the fields of the one Log object, valid once instance # <<>>
this == instance[1]

\* variants of init: every call constructs a new Log; a later call rebinds the
\* singleton to the settings object it was given
init_alwaysNew(pluginname, settings) ==
    LET s == resolveSettings(settings) IN
    [instance |-> <<[id |-> created + 1,
                     pluginname |-> resolvePluginName(pluginname),
                     settings |-> s.ret]>>,
     heap |-> s.heap, created |-> created + 1, ret |-> created + 1]

init_rebinds(pluginname, settings) ==
    IF instance # <<>> THEN
        [instance |-> IF settings = <<>> THEN instance
                      ELSE <<[this EXCEPT !.settings = settings[1]]>>,
         heap |-> heap, created |-> created, ret |-> this.id]
    ELSE
        LET s == resolveSettings(settings) IN
        [instance |-> <<[id |-> created + 1,
                         pluginname |-> resolvePluginName(pluginname),
                         settings |-> s.ret]>>,
         heap |-> s.heap, created |-> created + 1, ret |-> created + 1]

\* variant of init that resolves the settings it was given on every call
init_alwaysResolves(pluginname, settings) ==
    LET s == resolveSettings(settings) IN
    IF instance # <<>> THEN
        [instance |-> instance, heap |-> [o \in DOMAIN heap |-> s.heap[o]],
         created |-> created, ret |-> this.id]
    ELSE
        [instance |-> <<[id |-> created + 1,
                         pluginname |-> resolvePluginName(pluginname),
                         settings |-> s.ret]>>,
         heap |-> s.heap, created |-> created + 1, ret |-> created + 1]

\* Log.init: the first call constructs the singleton from the resolved name and
\* settings; every later call returns the existing instance and ignores its arguments
init(pluginname, settings) ==
    IF instance # <<>> THEN
        [instance |-> instance, heap |-> heap, created |-> created, ret |-> this.id]
    ELSE
        LET s == resolveSettings(settings) IN
        [instance |-> <<[id |-> created + 1,
                         pluginname |-> resolvePluginName(pluginname),
                         settings |-> s.ret]>>,
         heap |-> s.heap, created |-> created + 1, ret |-> created + 1]

\* calling a value that is not a function raises a TypeError
TypeError == Effect("throw TypeError", <<>>)

\* Log.logger: gate on the live settings.loglevel, then the one-time warning, then
\* the console function of the message level; returns the effects and the new flag
logger(msglvl, args) ==
    IF isEnabled(msglvl, heap[this.settings]) THEN
        LET w == showDebugWarning(showWarning, msglvl, this.pluginname) IN
        [out |-> w.out \o <<IF CONSOLE_FN(msglvl) = "undefined" THEN TypeError
                             ELSE Effect(CONSOLE_FN(msglvl), <<this.pluginname>> \o args)>>,
         show |-> w.ret]
    ELSE
        [out |-> <<>>, show |-> showWarning]

\* variant of cssClass whose neutral case falls into the info class
cssClass_logInfo(level) ==
    CASE level = ERROR -> "notice-error"
      [] level = WARN -> "notice-warn"
      [] level = INFO -> "notice-info"
      [] level = SUCCESS -> "notice-success"
      [] level = LOG -> "notice-info"
      [] OTHER -> ""

cssClass(level) ==
    CASE level = ERROR -> "notice-error"
      [] level = WARN -> "notice-warn"
      [] level = INFO -> "notice-info"
      [] level = SUCCESS -> "notice-success"
      [] level = LOG -> ""
      [] OTHER -> ""

note(message, level) ==
    <<Effect("new Notice", <<message>>)>>
    \o (IF cssClass(level) # "" THEN <<Effect("addClass", <<Str(cssClass(level))>>)>> ELSE <<>>)

\* variant of ErrorText that joins message and error without a line break
ErrorText_noBreak(message, level) == Str(message.v \o level.v)

\* `${message}\r\n${level.toString()}`
ErrorText(message, level) == Str(message.v \o "\r\n" \o level.v)

debug(data) == logger(DEBUG, data)

log(data) == logger(LOG, data)

info(data) == logger(INFO, data)

warn(data) == logger(WARN, data)

\* variant of error that puts the error ahead of the extra values
error_errFirst(err, data) == logger(ERROR, <<err>> \o data)

error(err, data) == logger(ERROR, data \o <<err>>)

\* variants of notice: the notice is shown only when the console call was made;
\* the "debug" case falls through to the default notice; the error value is not
\* handed to the logger
notice_gated(message, level) ==
    LET logLevel == getLogLevel(level)
        l == IF instanceofError(level) THEN logger(logLevel, <<message, level>>)
             ELSE logger(logLevel, <<message>>)
        n == IF l.out = <<>> THEN <<>>
             ELSE IF instanceofError(level) THEN note(ErrorText(message, level), ERROR)
             ELSE IF level = WARN THEN note(message, WARN)
             ELSE IF level = SUCCESS THEN note(message, SUCCESS)
             ELSE IF level = DEBUG THEN <<>>
             ELSE IF level = LOG THEN note(message, LOG)
             ELSE note(message, INFO)
    IN [out |-> l.out \o n, show |-> l.show]

notice_debugNotes(message, level) ==
    LET logLevel == getLogLevel(level)
        l == IF instanceofError(level) THEN logger(logLevel, <<message, level>>)
             ELSE logger(logLevel, <<message>>)
        n == IF instanceofError(level) THEN note(ErrorText(message, level), ERROR)
             ELSE IF level = WARN THEN note(message, WARN)
             ELSE IF level = SUCCESS THEN note(message, SUCCESS)
             ELSE IF level = LOG THEN note(message, LOG)
             ELSE note(message, INFO)
    IN [out |-> l.out \o n, show |-> l.show]

notice_dropsError(message, level) ==
    LET logLevel == getLogLevel(level)
        l == logger(logLevel, <<message>>)
        n == IF instanceofError(level) THEN note(ErrorText(message, level), ERROR)
             ELSE IF level = WARN THEN note(message, WARN)
             ELSE IF level = SUCCESS THEN note(message, SUCCESS)
             ELSE IF level = DEBUG THEN <<>>
             ELSE IF level = LOG THEN note(message, LOG)
             ELSE note(message, INFO)
    IN [out |-> l.out \o n, show |-> l.show]

\* variant of notice that shows the notice before it logs
notice_noteFirst(message, level) ==
    LET logLevel == getLogLevel(level)
        l == IF instanceofError(level) THEN logger(logLevel, <<message, level>>)
             ELSE logger(logLevel, <<message>>)
        n == IF instanceofError(level) THEN note(ErrorText(message, level), ERROR)
             ELSE IF level = WARN THEN note(message, WARN)
             ELSE IF level = SUCCESS THEN note(message, SUCCESS)
             ELSE IF level = DEBUG THEN <<>>
             ELSE IF level = LOG THEN note(message, LOG)
             ELSE note(message, INFO)
    IN [out |-> n \o l.out, show |-> l.show]

notice(message, level) ==
    LET logLevel == getLogLevel(level)
        l == IF instanceofError(level) THEN logger(logLevel, <<message, level>>)
             ELSE logger(logLevel, <<message>>)
        n == IF instanceofError(level) THEN note(ErrorText(message, level), ERROR)
             ELSE IF level = WARN THEN note(message, WARN)
             ELSE IF level = SUCCESS THEN note(message, SUCCESS)
             ELSE IF level = DEBUG THEN <<>>
             ELSE IF level = LOG THEN note(message, LOG)
             ELSE note(message, INFO)
    IN [out |-> l.out \o n, show |-> l.show]

-----------------------------------------------------------------------------
(* Bounds and input sets *)

MaxInstances == 2

MaxWarnings == 2

MaxJournal == 4

\* the settings objects the calling plugin owns
CallerObjects == {1, 2}

LevelValues == LOG_LEVEL_SET \cup {Str("INVALID")}

NameArgs == {Undefined, Str(""), Str("A"), Str("B")}

InjectedNames == {Undefined, Str(""), Str("injected")}

DataArgs == {<<Str("x"), Str("y")>>}

ExtraArgs == {<<>>, <<Str("x"), Str("y")>>}

NoticeArgs == {Undefined, ERROR, WARN, DEBUG, LOG, INFO, SUCCESS, NONE,
               Str(""), Str("unknown"), ErrorValue}

PureValues == LOG_LEVEL_SET \cup {SUCCESS, Str("INVALID"), Str("Error"), Str(""), Str("unknown"),
                                  Undefined, Null, Num123, EmptyObject, EmptyArray, ErrorValue}

-----------------------------------------------------------------------------
(* The facade as a state machine *)

NoCall == [op |-> "none", msglvl |-> Undefined, setlvl |-> Undefined, args |-> <<>>,
           out |-> <<>>, ret |-> 0, first |-> FALSE]

PureIdle == pfn = "none" /\ pin = <<Undefined, Undefined>> /\ pout = Undefined

FacadeInit ==
    /\ PLUGIN_NAME = Undefined
    /\ heap \in [CallerObjects -> LevelValues]
    /\ instance = <<>>
    /\ created = 0
    /\ showWarning = TRUE
    /\ warnings = 0
    /\ last = NoCall
    /\ journal = <<>>

Init == FacadeInit /\ PureIdle

\* the number of times the compatibility warning occurs in a sequence of effects
RECURSIVE CountWarnings(_)
CountWarnings(out) ==
    IF out = <<>> THEN 0
    ELSE (IF Head(out).sink = "console.warn" /\ Len(Head(out).args) = 2
             /\ Head(out).args[2] = DEBUGWARNING THEN 1 ELSE 0)
         + CountWarnings(Tail(out))

\* Log.init(pluginname?, settings?)
CallInit(pluginname, settings) ==
    LET r == init(pluginname, settings) IN
    /\ created < MaxInstances
    /\ instance' = r.instance
    /\ heap' = r.heap
    /\ created' = r.created
    /\ last' = [op |-> "init", msglvl |-> Undefined,
                setlvl |-> IF settings = <<>> THEN Undefined ELSE heap[settings[1]],
                args |-> <<pluginname>> \o settings,
                out |-> <<>>, ret |-> r.ret, first |-> instance = <<>>]
    /\ UNCHANGED <<PLUGIN_NAME, showWarning, warnings, journal, pureVars>>

\* code outside the logger assigns settings.loglevel = v on one of the settings objects
Mutate(o, v) ==
    /\ heap[o] # v
    /\ heap' = [heap EXCEPT ![o] = v]
    /\ last' = [NoCall EXCEPT !.op = "mutate"]
    /\ UNCHANGED <<PLUGIN_NAME, instance, created, showWarning, warnings, journal, pureVars>>

\* the effects of a method body that do happen: a raised fault ends the call
RECURSIVE UpToThrow(_)
UpToThrow(out) ==
    IF out = <<>> THEN <<>>
    ELSE IF Head(out) = TypeError THEN <<TypeError>>
    ELSE <<Head(out)>> \o UpToThrow(Tail(out))

\* a call of one of the logging methods on the singleton, with result r of its body
Invoke(op, msglvl, args, r) ==
    /\ instance # <<>>
    /\ warnings < MaxWarnings
    /\ showWarning' = r.show
    /\ warnings' = warnings + CountWarnings(r.out)
    /\ last' = [op |-> op, msglvl |-> msglvl, setlvl |-> heap[this.settings],
                args |-> args, out |-> UpToThrow(r.out), ret |-> 0, first |-> FALSE]
    /\ UNCHANGED <<PLUGIN_NAME, heap, instance, created, pureVars>>

\* variant of Call that corrects an invalid level of the settings when it logs
Call_normalizes(op, msglvl, args, r) ==
    /\ instance # <<>>
    /\ warnings < MaxWarnings
    /\ showWarning' = r.show
    /\ warnings' = warnings + CountWarnings(r.out)
    /\ last' = [op |-> op, msglvl |-> msglvl, setlvl |-> heap[this.settings],
                args |-> args, out |-> UpToThrow(r.out), ret |-> 0, first |-> FALSE]
    /\ heap' = IF isLogLevel(heap[this.settings]) THEN heap
               ELSE [heap EXCEPT ![this.settings] = INFO]
    /\ UNCHANGED <<PLUGIN_NAME, instance, created, journal, pureVars>>

Call(op, msglvl, args, r) == Invoke(op, msglvl, args, r) /\ UNCHANGED journal

\* the same call with the sinks observed: every effect reaches its sink when the
\* body produces it, before the call returns
Record(op, msglvl, args, r) ==
    /\ instance # <<>>
    /\ Len(journal) + Len(r.out) <= MaxJournal
    /\ Invoke(op, msglvl, args, r)
    /\ journal' = journal \o UpToThrow(r.out)

CallDebug(data) == Call("debug", DEBUG, data, debug(data))

CallLog(data) == Call("log", LOG, data, log(data))

CallInfo(data) == Call("info", INFO, data, info(data))

CallWarn(data) == Call("warn", WARN, data, warn(data))

CallError(err, data) == Call("error", ERROR, <<err>> \o data, error(err, data))

CallNotice(message, level) ==
    Call("notice", getLogLevel(level), <<message, level>>, notice(message, level))

Next ==
    \/ \E n \in NameArgs, s \in {<<>>} \cup {<<o>> : o \in CallerObjects} : CallInit(n, s)
    \/ \E o \in DOMAIN heap, v \in LevelValues : Mutate(o, v)
    \/ \E d \in DataArgs : CallDebug(d)
    \/ \E d \in DataArgs : CallLog(d)
    \/ \E d \in DataArgs : CallInfo(d)
    \/ \E d \in DataArgs : CallWarn(d)
    \/ \E d \in ExtraArgs : CallError(ErrorValue, d)
    \/ \E l \in NoticeArgs : CallNotice(Str("m"), l)

Spec == Init /\ [][Next]_vars

-----------------------------------------------------------------------------
(* The facade in a bundle: __PLUGIN_NAME__ is whatever the build injected *)

InitName ==
    /\ PLUGIN_NAME \in InjectedNames
    /\ heap \in [CallerObjects -> {LOG, Str("INVALID")}]
    /\ instance = <<>>
    /\ created = 0
    /\ showWarning = TRUE
    /\ warnings = 0
    /\ last = NoCall
    /\ journal = <<>>
    /\ PureIdle

NextName ==
    \/ \E n \in NameArgs, s \in {<<>>} \cup {<<o>> : o \in CallerObjects} : CallInit(n, s)
    \/ \E d \in DataArgs : CallDebug(d)
    \/ \E d \in DataArgs : CallLog(d)
    \/ \E d \in DataArgs : CallInfo(d)
    \/ \E d \in DataArgs : CallWarn(d)
    \/ \E d \in ExtraArgs : CallError(ErrorValue, d)
    \/ \E l \in NoticeArgs : CallNotice(Str("m"), l)

SpecName == InitName /\ [][NextName]_vars

-----------------------------------------------------------------------------
(* The facade with its sinks observed over a sequence of calls *)

InitOrder ==
    /\ PLUGIN_NAME = Undefined
    /\ heap \in [CallerObjects -> {INFO, WARN}]
    /\ instance = <<>>
    /\ created = 0
    /\ showWarning = TRUE
    /\ warnings = 0
    /\ last = NoCall
    /\ journal = <<>>
    /\ PureIdle

NextOrder ==
    \/ \E s \in {<<>>} \cup {<<o>> : o \in CallerObjects} : CallInit(Str("A"), s)
    \/ \E d \in DataArgs : Record("debug", DEBUG, d, debug(d))
    \/ \E d \in DataArgs : Record("log", LOG, d, log(d))
    \/ \E d \in DataArgs : Record("info", INFO, d, info(d))
    \/ \E d \in DataArgs : Record("warn", WARN, d, warn(d))
    \/ \E d \in ExtraArgs : Record("error", ERROR, <<ErrorValue>> \o d, error(ErrorValue, d))
    \/ \E l \in NoticeArgs :
          Record("notice", getLogLevel(l), <<Str("m"), l>>, notice(Str("m"), l))

SpecOrder == InitOrder /\ [][NextOrder]_vars

-----------------------------------------------------------------------------
(* The pure functions of lib/log.internal.ts applied to drawn inputs *)

JSBool(b) == [t |-> "boolean", v |-> IF b THEN "true" ELSE "false"]

FacadeIdle ==
    /\ PLUGIN_NAME = Undefined
    /\ heap = [o \in CallerObjects |-> INFO]
    /\ instance = <<>>
    /\ created = 0
    /\ showWarning = TRUE
    /\ warnings = 0
    /\ last = NoCall
    /\ journal = <<>>

InitPure ==
    /\ FacadeIdle
    /\ pfn = "none"
    /\ pin \in PureValues \X PureValues
    /\ pout = Undefined

ApplyIsEnabled ==
    /\ pfn' = "isEnabled"
    /\ pout' = JSBool(isEnabled(pin[1], pin[2]))
    /\ UNCHANGED <<pin, facadeVars>>

ApplyIsLogLevel ==
    /\ pfn' = "isLogLevel"
    /\ pout' = JSBool(isLogLevel(pin[1]))
    /\ UNCHANGED <<pin, facadeVars>>

ApplyGetLogLevel ==
    /\ pfn' = "getLogLevel"
    /\ pout' = getLogLevel(pin[1])
    /\ UNCHANGED <<pin, facadeVars>>

NextPure == ApplyIsEnabled \/ ApplyIsLogLevel \/ ApplyGetLogLevel

SpecPure == InitPure /\ [][NextPure]_vars

-----------------------------------------------------------------------------
(* Vocabulary of the properties *)

FiveSeverities == {ERROR, WARN, DEBUG, LOG, INFO}

LogOps == {"debug", "log", "info", "warn", "error", "notice"}

ConsoleSinks == {"console.error", "console.warn", "console.debug", "console.log", "console.info"}

\* the severities a configured level lets through, as the documentation lists them
PassesUnder(c) ==
    CASE c = ERROR -> {ERROR}
      [] c = WARN -> {ERROR, WARN}
      [] c = DEBUG -> {ERROR, WARN, DEBUG}
      [] c = LOG -> {ERROR, WARN, DEBUG, LOG}
      [] c = INFO -> {ERROR, WARN, DEBUG, LOG, INFO}
      [] OTHER -> {}

IsWarning(e) == e.sink = "console.warn" /\ Len(e.args) = 2 /\ e.args[2] = DEBUGWARNING

\* the console invocations of a call, and those among them that carry the message
ConsoleCalls(out) == SelectSeq(out, LAMBDA e : e.sink \in ConsoleSinks)

MessageCalls(out) == SelectSeq(out, LAMBDA e : e.sink \in ConsoleSinks /\ ~IsWarning(e))

Initialized == instance # <<>>

\* the level the singleton's settings object holds now
Level == heap[this.settings]

-----------------------------------------------------------------------------
(* Properties *)

\* C1: for message severity m and configured severity c, both among error, warn,
\* debug, log, info, isEnabled(m, c) is true exactly when m is at most as verbose
\* as c: error passes only error, warn passes error and warn, and so on to info,
\* which passes all five.
C1_GateFollowsOrder ==
    (pfn = "isEnabled" /\ pin[1] \in FiveSeverities /\ pin[2] \in FiveSeverities)
        => pout = JSBool(pin[1] \in PassesUnder(pin[2]))

C1_Witness == pfn = "isEnabled" /\ pin = <<LOG, LOG>> /\ pout = JSBool(TRUE)

\* C2: isEnabled(a, none) is false for each of the six severities a, none included.
C2_NoneAllowsNothing ==
    (pfn = "isEnabled" /\ pin[1] \in LOG_LEVEL_SET /\ pin[2] = NONE) => pout = JSBool(FALSE)

C2_Witness == pfn = "isEnabled" /\ pin = <<NONE, NONE>> /\ pout = JSBool(FALSE)

\* C3: while settings.loglevel is none, a call of debug, log, info, warn, error or
\* notice invokes no console function at all, the one-time warning included.
C3_NoneSilencesConsole ==
    (Initialized /\ last.op \in LogOps /\ Level = NONE)
        => ConsoleCalls(last.out) = <<>>

C3_Witness ==
    Initialized /\ last.op = "debug" /\ Level = NONE /\ last.out = <<>> /\ showWarning

\* C4: the logger is a singleton: a Log is constructed once, on the first init;
\* once it exists it is never replaced and its name and settings reference never
\* change; every init returns that instance; console output carries its name.
C4_SingletonState ==
    /\ created <= 1
    /\ Initialized <=> created = 1
    /\ (last.op = "init") => (Initialized /\ last.ret = this.id)
    /\ (Initialized /\ last.op \in LogOps) =>
           \A i \in DOMAIN last.out :
               last.out[i].sink \in ConsoleSinks => last.out[i].args[1] = this.pluginname

C6_GateReadsLiveLevel ==
    (Initialized /\ last.op \in LogOps /\ isLogLevel(Level))
        => (MessageCalls(last.out) # <<>> <=> last.msglvl \in PassesUnder(Level))

\* the default settings object is created with level info: found at warn, it was
\* reassigned after init, and the debug call made then was held back
C6_Witness ==
    /\ Initialized /\ this.settings \notin CallerObjects /\ Level = WARN
    /\ last.op = "debug" /\ last.out = <<>>

\* C7: a first init given a settings object whose level is no valid severity keeps
\* that object as the singleton's settings and sets its level to info, after which
\* all five severities pass the gate.
C7_InvalidLevelFixedInPlace ==
    (last.op = "init" /\ last.first /\ Len(last.args) = 2 /\ ~isLogLevel(last.setlvl))
        => /\ this.settings = last.args[2]
           /\ heap[last.args[2]] = INFO
           /\ DOMAIN heap = CallerObjects
           /\ \A m \in FiveSeverities : isEnabled(m, Level)

C7_Witness ==
    /\ last.op = "init" /\ last.first /\ last.args = <<Str("A"), 1>>
    /\ last.setlvl = Str("INVALID") /\ heap[1] = INFO /\ this.settings = 1

\* C8 (as claimed): when settings.loglevel holds no valid severity at a logging
\* call, the call sets it to info and emits the message.
C8_InvalidLevelTreatedAsInfo ==
    (Initialized /\ last.op \in LogOps /\ ~isLogLevel(last.setlvl))
        => (MessageCalls(last.out) # <<>> /\ Level = INFO)

Notices(out) == SelectSeq(out, LAMBDA e : e.sink = "new Notice")

Classes(out) == SelectSeq(out, LAMBDA e : e.sink = "addClass")

\* the severity a notice level stands for, as the documentation of NoticeLevel
\* lists it
NoticeSeverity(level) ==
    CASE level.t = "error" -> ERROR
      [] level = Str("error") -> ERROR
      [] level = Str("success") -> DEBUG
      [] level = Str("debug") -> DEBUG
      [] level = Str("warn") -> WARN
      [] level = Str("log") -> LOG
      [] OTHER -> INFO

\* the console function that belongs to a severity
SinkOf(sev) == "console." \o sev.v

\* C11: getLogLevel is total and its result is always one of error, warn, debug,
\* log, info and never none: a raised error or "error" gives error, "success"
\* or "debug" gives debug, "warn" gives warn, "log" gives log, and every other
\* input (undefined, "info", "none", "", anything unrecognized) gives info.
C11_NoticeSeverityMapping ==
    pfn = "getLogLevel" =>
        /\ pout \in FiveSeverities
        /\ pout # NONE
        /\ pout = NoticeSeverity(pin[1])

C11_Witness == pfn = "getLogLevel" /\ pin[1] = NONE /\ pout = INFO

\* C12: for every level input other than the literal "debug" and every
\* configured level, none included, notice(message, level) creates exactly one
\* notice, whether or not a console function was invoked.
C12_NoticeIndependentOfGate ==
    (Initialized /\ last.op = "notice" /\ last.args[2] # Str("debug")) =>
        Len(Notices(last.out)) = 1

C12_Witness ==
    /\ Initialized /\ last.op = "notice" /\ last.setlvl = NONE
    /\ last.args[2] = WARN
    /\ ConsoleCalls(last.out) = <<>>
    /\ Len(Notices(last.out)) = 1

\* C13: notice(message, "debug") never creates a notice and attaches no style
\* class, whatever the configured level; it invokes console.debug with
\* (name, message) when the gate lets debug through and no message function
\* otherwise.
C13_DebugNoticeIsConsoleOnly ==
    (Initialized /\ last.op = "notice" /\ last.args[2] = Str("debug")) =>
        /\ Notices(last.out) = <<>>
        /\ Classes(last.out) = <<>>
        /\ MessageCalls(last.out) =
              IF DEBUG \in PassesUnder(last.setlvl)
              THEN <<Effect("console.debug", <<this.pluginname, last.args[1]>>)>>
              ELSE <<>>

C13_Witness ==
    /\ Initialized /\ last.op = "notice" /\ last.args[2] = Str("debug")
    /\ last.setlvl = INFO
    /\ last.out = <<Effect("console.debug", <<this.pluginname, Str("m")>>)>>

\* C14: notice(message, "error") with the literal string "error" logs at error
\* severity and creates a notice that carries the notice-error class, as when a
\* raised error is passed.
C14_LiteralErrorStyledAsError ==
    (Initialized /\ last.op = "notice" /\ last.args[2] = Str("error")) =>
        /\ last.msglvl = ERROR
        /\ Len(Notices(last.out)) = 1
        /\ Classes(last.out) = <<Effect("addClass", <<Str("notice-error")>>)>>

\* the console invocation a notice call makes for its message
NoticeMessageCall ==
    LET sev == NoticeSeverity(last.args[2])
        args == IF last.args[2].t = "error"
                THEN <<this.pluginname, last.args[1], last.args[2]>>
                ELSE <<this.pluginname, last.args[1]>>
    IN IF sev \in PassesUnder(last.setlvl)
       THEN <<Effect(SinkOf(sev), args)>>
       ELSE <<>>

C16_ErrorTextLineFeed ==
    (Initialized /\ last.op = "notice" /\ last.args[2].t = "error") =>
        /\ Notices(last.out) =
              <<Effect("new Notice", <<Str(last.args[1].v \o "\n" \o last.args[2].v)>>)>>
        /\ Classes(last.out) = <<Effect("addClass", <<Str("notice-error")>>)>>

\* C16, amended: notice(message, error) creates a notice whose text is the
\* message, the line break "\r\n" and error.toString(), with the error class.
C16_ErrorTextCarriageReturnLineFeed ==
    (Initialized /\ last.op = "notice" /\ last.args[2].t = "error") =>
        /\ Notices(last.out) =
              <<Effect("new Notice", <<Str(last.args[1].v \o "\r\n" \o last.args[2].v)>>)>>
        /\ Classes(last.out) = <<Effect("addClass", <<Str("notice-error")>>)>>

C16_Witness ==
    /\ Initialized /\ last.op = "notice" /\ last.args[2] = ErrorValue
    /\ Len(Notices(last.out)) = 1
    /\ Notices(last.out)[1].args = <<Str("m\r\nError: boom")>>

\* the style classes a notice level other than a raised error, "error" and
\* "debug" is shown with
StyleOf(level) ==
    CASE level = Str("warn") -> <<"notice-warn">>
      [] level = Str("success") -> <<"notice-success">>
      [] level = Str("log") -> <<>>
      [] OTHER -> <<"notice-info">>

\* C17: "warn" attaches exactly the warn class, "success" exactly the success
\* class, "log" no class, and undefined, "info" and any unrecognized value
\* exactly the info class; a notice never carries more than one style class,
\* and for these inputs its text is the unmodified message.
C17_StylePerLevel ==
    (Initialized /\ last.op = "notice") =>
        /\ Len(Classes(last.out)) <= 1
        /\ (last.args[2].t # "error" /\ last.args[2] \notin {Str("error"), Str("debug")}) =>
              /\ Notices(last.out) = <<Effect("new Notice", <<last.args[1]>>)>>
              /\ Classes(last.out) =
                    [k \in DOMAIN StyleOf(last.args[2]) |->
                        Effect("addClass", <<Str(StyleOf(last.args[2])[k])>>)]

C17_Witness ==
    /\ Initialized /\ last.op = "notice" /\ last.args[2] = Str("log")
    /\ Notices(last.out) = <<Effect("new Notice", <<Str("m")>>)>>
    /\ Classes(last.out) = <<>>

\* C18: error(err, ...extra) calls console.error(name, ...extra, err): the
\* error comes last, after the extra values; with no extras the call is
\* console.error(name, err).
C18_ErrorComesLast ==
    (Initialized /\ last.op = "error" /\ ERROR \in PassesUnder(last.setlvl)) =>
        last.out = <<Effect("console.error",
                            <<this.pluginname>> \o Tail(last.args) \o <<Head(last.args)>>)>>

C18_Witness ==
    /\ Initialized /\ last.op = "error"
    /\ last.args = <<ErrorValue, Str("x"), Str("y")>>
    /\ last.out = <<Effect("console.error",
                           <<this.pluginname, Str("x"), Str("y"), ErrorValue>>)>>

FirstNonEmpty(explicit, injected) ==
    IF explicit.t = "string" /\ explicit.v # "" THEN explicit
    ELSE IF injected.t = "string" /\ injected.v # "" THEN injected
    ELSE Str("unknown-plugin")

\* C20: the name fixed at the first init is the first non-empty of the explicit
\* name, the injected name and "unknown-plugin"; it is never the empty string,
\* also when the explicit argument or the injected name is "".
C20_NameIsFirstNonEmpty ==
    Initialized =>
        /\ this.pluginname # Str("")
        /\ (last.op = "init" /\ last.first) =>
              this.pluginname = FirstNonEmpty(last.args[1], PLUGIN_NAME)

\* C21, at the first init: called without a settings object, it leaves the logger
\* with a record of its own, distinct from every object of the caller, whose
\* level is info, so that all five severities pass the gate.
C21_DefaultRecord ==
    (last.op = "init" /\ last.first /\ Len(last.args) = 1) =>
        /\ this.settings \notin CallerObjects
        /\ Level = INFO
        /\ \A m \in FiveSeverities : isEnabled(m, Level)

\* C21, afterwards: while the level of that record is info, nothing but a
\* mutation by the caller changes it, and every logging call hands its message
\* to the console.
C21_DefaultRecordStep ==
    (Initialized /\ this.settings \notin CallerObjects /\ Level = INFO
       /\ last'.op # "mutate") =>
        /\ heap'[this.settings] = INFO
        /\ last'.op \in LogOps => Len(MessageCalls(last'.out)) = 1

CanonicalStrings == {"none", "error", "warn", "debug", "log", "info"}

Warned == last.op \in LogOps /\ \E i \in DOMAIN last.out : IsWarning(last.out[i])

Rank(lvl) ==
    CASE lvl.v = "none" -> 0
      [] lvl.v = "error" -> 1
      [] lvl.v = "warn" -> 2
      [] lvl.v = "debug" -> 3
      [] lvl.v = "log" -> 4
      [] lvl.v = "info" -> 5

\* C27: over valid severities the gate is monotone in both arguments: a message
\* that passes under c passes under every c2 of at least the rank of c, and
\* when m passes under c so does every non-none m2 of at most the rank of m;
\* error messages pass under every configured level except none.
C27_GateMonotone ==
    (pfn = "isEnabled" /\ pin[1] \in LOG_LEVEL_SET /\ pin[2] \in LOG_LEVEL_SET) =>
        /\ pout = JSBool(TRUE) =>
              /\ \A c2 \in LOG_LEVEL_SET :
                    Rank(pin[2]) <= Rank(c2) => isEnabled(pin[1], c2)
              /\ \A m2 \in FiveSeverities :
                    Rank(m2) <= Rank(pin[1]) => isEnabled(m2, pin[2])
        /\ (pin[1] = ERROR /\ pin[2] # NONE) => pout = JSBool(TRUE)

C27_Witness ==
    pfn = "isEnabled" /\ pin = <<DEBUG, DEBUG>> /\ pout = JSBool(TRUE)

\* C23, within a call: in the effects of a notice call every console
\* invocation comes before the creation of the notice, and the notice before
\* its style class.
C23_ConsoleBeforeNotice ==
    last.op = "notice" =>
        \A i, j \in DOMAIN last.out :
            \/ (last.out[i].sink \in ConsoleSinks /\ last.out[j].sink \notin ConsoleSinks)
            \/ (last.out[i].sink = "new Notice" /\ last.out[j].sink = "addClass")
            => i < j

\* C23, across calls: what the sinks have seen after a call is what they had
\* seen before it, followed by the effects of that call, in their order.
C23_Appended == journal' = journal \o last'.out

\* C23: side effects appear in program order: the sequence of console
\* invocations and notice creations is the concatenation, in call order, of
\* each call's own effects, nothing reordered, batched or deferred; within one
\* notice call the console emission precedes the notice creation.
C23_ProgramOrder == []C23_ConsoleBeforeNotice /\ [][C23_Appended]_vars

C23_Witness ==
    /\ last.op = "notice" /\ last.args[2] = Undefined
    /\ journal = <<Effect("console.warn", <<Str("A"), Str("x"), Str("y")>>),
                   Effect("console.info", <<Str("A"), Str("m")>>),
                   Effect("new Notice", <<Str("m")>>),
                   Effect("addClass", <<Str("notice-info")>>)>>

C28_ConfigurationFrame ==
    /\ last'.op \in LogOps =>
          (heap' = heap /\ instance' = instance /\ PLUGIN_NAME' = PLUGIN_NAME)
    /\ \A o \in DOMAIN heap :
          heap'[o] # heap[o] =>
              \/ last'.op = "mutate"
              \/ /\ last'.op = "init" /\ last'.first
                 /\ last'.args[2] = o
                 /\ ~isLogLevel(heap[o]) /\ heap'[o] = INFO

C30_SuccessLikeDebug ==
    (Initialized /\ last'.op = "notice" /\ last'.args[2] = Str("success")) =>
        LET d == notice(last'.args[1], Str("debug")) IN
        /\ ConsoleCalls(last'.out) = ConsoleCalls(d.out)
        /\ showWarning' = d.show
        /\ Notices(d.out) = <<>> /\ Classes(d.out) = <<>>
        /\ Notices(last'.out) = <<Effect("new Notice", <<last'.args[1]>>)>>
        /\ Classes(last'.out) = <<Effect("addClass", <<Str("notice-success")>>)>>
        /\ (showWarning /\ DEBUG \in PassesUnder(Level)) =>
              /\ last'.out[1] = Effect("console.warn", <<this.pluginname, DEBUGWARNING>>)
              /\ last'.out[2] = Effect("console.debug", <<this.pluginname, last'.args[1]>>)
              /\ ~showWarning'

=============================================================================
